---------------------------- MODULE Spec2Model ----------------------------
(***************************************************************************)
(* Thread-backed tasks of src/internal/task/task_threads.c: the rendezvous *)
(* between tinygo_task_start and start_wrapper, the thread-local           *)
(* current_task cell, and the GC pause signal; and the collector glue of   *)
(* src/runtime/gc_boehm.c: the root-scan callback and the warning filter.  *)
(*                                                                         *)
(* Thread 0 is the main thread.  Thread c (c >= 1) is the thread created   *)
(* by the c-th call of tinygo_task_start; the caller-owned locations       *)
(* passed to that call as thread and stackTop are thread[c], stackTop[c].  *)
(***************************************************************************)
EXTENDS Integers, Sequences, FiniteSets, TLC

\* ------------------------------------------------------------------ bounds
MaxCalls == 2          \* calls of tinygo_task_start in one run of Spec
MaxThreads == 3        \* calls of tinygo_task_start in one run of SpecWide
MaxSignals == 1        \* calls of tinygo_task_send_gc_signal in one run
MaxInits == 2          \* calls of each init function in one run
MaxWarnings == 2       \* warnings the collector raises in one run
MaxCollections == 2    \* times the collector scans the other roots in one run

\* --------------------------------------------------------------- constants
NULL == 0              \* the null pointer; zero-initialised thread-local storage
EAGAIN == 11           \* pthread_create's error when no thread can be created
NoId == -1             \* a pthread_t location nothing has been stored in
MainId == 0            \* pthread_self() of the main thread
StackBase == 4096      \* stack addresses are StackBase + thread, never 0
Junk == 99             \* a word left in reused stack memory

Threads == 0..MaxThreads
Calls == 1..MaxThreads
TaskIds == 1..MaxThreads             \* pthread_t values of created threads
Handles == {100 + i : i \in 0..MaxThreads} \* Task handles (main's and one per call)
ArgVals == {200 + i : i \in 1..MaxThreads} \* argument blocks (args), one per call
Fns == {300}                               \* entry functions (fn)
SysconfResults == {-1, 0, 1}           \* sysconf(_SC_NPROCESSORS_ONLN)

VARIABLES
    pc,            \* pc[t]: position of thread t in tinygo main / start_wrapper
    spc,           \* spc[t]: position of thread t inside tinygo_task_start
    state,         \* state[t]: the struct state_pass in t's stack frame
    frameCall,     \* frameCall[t]: the call whose frame holds state[t], 0 if none
    result,        \* result[t]: the local `result` of t's tinygo_task_start
    arg,           \* arg[c]: start_wrapper's `state` pointer (a thread's frame)
    start_l,       \* start_l[c]: start_wrapper's local `start`
    args_l,        \* args_l[c]: start_wrapper's local `args`
    current_task,  \* the thread-local cells
    stackTop,      \* stackTop[c]: caller-owned stack-top location of call c
    thread,        \* thread[c]: caller-owned pthread_t location of call c
    mainThread,    \* *thread of tinygo_task_init
    numCPU,        \* *numCPU of tinygo_task_init
    installs,      \* number of sigaction(taskPauseSignal, ...) calls
    tid,           \* tid[t]: pthread_t of thread t
    sem,           \* sem[c]: "none", "live" or "destroyed": startlock of call c
    ret,           \* ret[c]: what call c returned, NoRet while it has not
    pending,       \* pending[t]: pause signals pending on t (the id each was sent to)
    handling,      \* handling[t]: id the signal being handled was sent to, or NoId
    nsent,         \* number of tinygo_task_send_gc_signal calls so far
    crashed,       \* the process has crashed
    call,          \* call[c]: the arguments of the c-th tinygo_task_start
                   \* (call[0]: the mainTask of tinygo_task_init)
    ncalls,        \* number of tinygo_task_start calls so far
    ran,           \* ran[c]: <<fn, args>> the entry function of thread c ran with
    notified,      \* notified[c]: the handles thread c passed to tinygo_task_exited
    counter,       \* scenario counter: +1 in each entry function, -1 on each exit
    uaf,           \* a thread accessed a state_pass whose call had returned
    pauseAct,      \* the process's disposition of taskPauseSignal
    posted,        \* posted[k]: the threads that posted the startlock of call k
    waitedBy,      \* waitedBy[k]: the threads a wait on call k's startlock let go
    stWrites,      \* stWrites[k]: the threads that wrote stackTop[k]
    inits,         \* number of tinygo_task_init calls
    wasm,          \* gc_boehm.c is compiled with __wasm__ defined
    gc_push_other_roots,  \* the collector's push_other_roots callback
    gc_warn_proc,  \* the collector's warning procedure
    gcinits,       \* number of tinygo_runtime_bdwgc_init calls
    registrations, \* number of GC_set_push_other_roots calls
    raised,        \* the classes of the warnings the collector has raised
    emitted,       \* the classes of the warnings that were printed
    invocations,   \* number of times the collector invoked its callback
    scans          \* number of tinygo_runtime_bdwgc_callback calls

vars == <<pc, spc, state, frameCall, result, arg, start_l, args_l, current_task,
          stackTop, thread, mainThread, numCPU, installs, tid, sem, ret, pending,
          handling, nsent, crashed, call, ncalls, ran, notified, counter, uaf,
          pauseAct, posted, waitedBy, stWrites, inits, wasm, gc_push_other_roots,
          gc_warn_proc, gcinits, registrations, raised, emitted, invocations,
          scans>>

\* The variables of src/internal/task/task_threads.c.
taskvars == <<pc, spc, state, frameCall, result, arg, start_l, args_l,
              current_task, stackTop, thread, mainThread, numCPU, installs, tid,
              sem, ret, pending, handling, nsent, crashed, call, ncalls, ran,
              notified, counter, uaf, pauseAct, posted, waitedBy, stWrites,
              inits>>

\* The variables of the collector glue in src/runtime/gc_boehm.c.
gcvars == <<wasm, gc_push_other_roots, gc_warn_proc, gcinits, registrations,
            raised, emitted, invocations, scans>>

NoRet == -1
NoCall == [fn |-> NULL, args |-> NULL, task |-> NULL, spawner |-> NoId]
JunkState == [start |-> Junk, args |-> Junk, task |-> Junk, stackTop |-> 0,
              startlock |-> 0]

\* The disposition of a signal for which sigaction was never called.
SIG_DFL == [sa_handler |-> "SIG_DFL", sa_flags |-> {}]

\* Line 61 without the flag: act.sa_flags = 0.
sa_flags_None == {}

\* Line 61: act.sa_flags = SA_RESTART.
sa_flags == {"SA_RESTART"}

\* Lines 59-61: struct sigaction act = { 0 } with the handler and the flags.
act == [sa_handler |-> "tinygo_task_gc_pause", sa_flags |-> sa_flags]

\* current_task without __thread: one cell shared by all threads.
current_task_cell_Shared(t) == 0

\* static __thread void *current_task: one cell per thread.
current_task_cell(t) == t

\* (uintptr_t)(&stackAddr): the address of a local of thread c's stack.
StackAddr(c) == StackBase + c

\* The thread is between creation and termination.
Live(t) == pc[t] \notin {"none", "done"}

\* The handler not interrupting the thread it runs for: t goes on meanwhile.
Running_DuringHandler(t) == ~crashed /\ Live(t)

\* Thread t executes its own code: it is not inside the pause handler.
Running(t) == ~crashed /\ Live(t) /\ handling[t] = NoId

\* Thread t is in code of the embedding runtime (main after init, or an entry
\* function) and not inside tinygo_task_start.
UserCode(t) == Running(t) /\ pc[t] \in {"user", "entry"} /\ spc[t] = "idle"

\* The collector before tinygo_runtime_bdwgc_init: no callback registered, its
\* own warning procedure in place, nothing raised or printed.
InitGC ==
    /\ gc_push_other_roots = "none"
    /\ gc_warn_proc = "GC_default_warn_proc"
    /\ gcinits = 0
    /\ registrations = 0
    /\ raised = <<>>
    /\ emitted = <<>>
    /\ invocations = 0
    /\ scans = 0

\* Init without the choice of the platform.
InitTask ==
    /\ pc = [t \in Threads |-> IF t = 0 THEN "boot" ELSE "none"]
    /\ spc = [t \in Threads |-> "idle"]
    /\ state = [t \in Threads |-> JunkState]
    /\ frameCall = [t \in Threads |-> 0]
    /\ result = [t \in Threads |-> 0]
    /\ arg = [c \in Calls |-> 0]
    /\ start_l = [c \in Calls |-> NULL]
    /\ args_l = [c \in Calls |-> NULL]
    /\ current_task = [t \in Threads |-> NULL]
    /\ stackTop = [c \in 0..MaxThreads |-> 0]
    /\ thread = [c \in Calls |-> NoId]
    /\ mainThread = NoId
    /\ numCPU = 0
    /\ installs = 0
    /\ tid = [t \in Threads |-> IF t = 0 THEN MainId ELSE NoId]
    /\ sem = [c \in Calls |-> "none"]
    /\ ret = [c \in Calls |-> NoRet]
    /\ pending = [t \in Threads |-> <<>>]
    /\ handling = [t \in Threads |-> NoId]
    /\ nsent = 0
    /\ crashed = FALSE
    /\ call = [c \in 0..MaxThreads |-> NoCall]
    /\ ncalls = 0
    /\ ran = [c \in Calls |-> <<NULL, NULL>>]
    /\ notified = [c \in Calls |-> <<>>]
    /\ counter = 0
    /\ uaf = FALSE
    /\ pauseAct = SIG_DFL
    /\ posted = [k \in 0..MaxThreads |-> <<>>]
    /\ waitedBy = [k \in 0..MaxThreads |-> <<>>]
    /\ stWrites = [k \in 0..MaxThreads |-> <<>>]
    /\ inits = 0
    /\ InitGC

\* The state after construction, built for a platform other than WebAssembly.
Init == InitTask /\ wasm = FALSE

\* ------------------------------------------------------- tinygo_task_init
\* The embedding runtime gives every thread a Task of its own, and every call a
\* newly allocated argument block: the next handle and block not yet used.
UnusedHandles == {h \in Handles : \A c \in 0..MaxThreads : call[c].task # h}
FreshHandles == {h \in UnusedHandles : \A g \in UnusedHandles : h <= g}
UnusedArgs == {a \in ArgVals : \A c \in Calls : call[c].args # a}
FreshArgs == {a \in UnusedArgs : \A b \in UnusedArgs : a <= b}

\* Lines 49-71: bind the main task, store pthread_self(), install the pause
\* handler, store the number of CPUs (1 when sysconf fails).
tinygo_task_init(mainTask, num) ==
    /\ ~crashed
    /\ pc[0] = "boot"
    /\ current_task' = [current_task EXCEPT ![current_task_cell(0)] = mainTask]
    /\ mainThread' = tid[0]
    /\ installs' = installs + 1
    /\ pauseAct' = act
    /\ inits' = inits + 1
    /\ numCPU' = IF num <= 0 THEN 1 ELSE num
    /\ call' = [call EXCEPT ![0] = [NoCall EXCEPT !.task = mainTask]]
    /\ pc' = [pc EXCEPT ![0] = "user"]
    /\ UNCHANGED <<spc, state, frameCall, result, arg, start_l, args_l, stackTop,
                   thread, tid, sem, ret, pending, handling, nsent, crashed,
                   ncalls, ran, notified, counter, uaf>>
    /\ UNCHANGED <<posted, waitedBy, stWrites>>
    /\ UNCHANGED gcvars

\* A later call of tinygo_task_init behind a once-guard: the main task is
\* bound, but sigaction is not called a second time.
tinygo_task_init_again_Guarded(mainTask, num) ==
    /\ UserCode(0)
    /\ inits < MaxInits
    /\ mainTask = call[0].task
    /\ current_task' = [current_task EXCEPT ![current_task_cell(0)] = mainTask]
    /\ mainThread' = tid[0]
    /\ inits' = inits + 1
    /\ numCPU' = IF num <= 0 THEN 1 ELSE num
    /\ UNCHANGED <<pc, spc, state, frameCall, result, arg, start_l, args_l,
                   stackTop, thread, tid, sem, ret, pending, handling, nsent,
                   crashed, call, ncalls, ran, notified, counter, uaf>>
    /\ UNCHANGED <<installs, pauseAct, posted, waitedBy, stWrites>>
    /\ UNCHANGED gcvars

\* Lines 49-71 once more: the embedding runtime calls tinygo_task_init again
\* on the main thread, with the same main task.  Nothing in the function
\* remembers the first call: the task is bound, pthread_self() stored and
\* sigaction called as before.
tinygo_task_init_again(mainTask, num) ==
    /\ UserCode(0)
    /\ inits < MaxInits
    /\ mainTask = call[0].task
    /\ current_task' = [current_task EXCEPT ![current_task_cell(0)] = mainTask]
    /\ mainThread' = tid[0]
    /\ installs' = installs + 1
    /\ pauseAct' = act
    /\ inits' = inits + 1
    /\ numCPU' = IF num <= 0 THEN 1 ELSE num
    /\ UNCHANGED <<pc, spc, state, frameCall, result, arg, start_l, args_l,
                   stackTop, thread, tid, sem, ret, pending, handling, nsent,
                   crashed, call, ncalls, ran, notified, counter, uaf>>
    /\ UNCHANGED <<posted, waitedBy, stWrites>>
    /\ UNCHANGED gcvars

\* ------------------------------------------------------ tinygo_task_start
\* pthread_t values no live thread holds.  pthread_create gives the new thread
\* the least of them, so the identity of a terminated detached thread is
\* reused by the next thread created.
FreeIds == {i \in TaskIds : \A u \in Threads : Live(u) => tid[u] # i}
NewId == CHOOSE i \in FreeIds : \A j \in FreeIds : i <= j

\* Lines 110-120: the state_pass record in the caller's frame, its semaphore
\* initialised to 0.  The c-th call is given stackTop[c] as its stackTop.
NewState(fn, a, h, c) ==
    [start |-> fn, args |-> a, task |-> h, stackTop |-> c, startlock |-> 0]

\* StartCreate binding the new task in the caller: current_task = task in
\* tinygo_task_start as well as in the new thread.
StartCreate_BindsInCaller(s, fn, a, h) ==
    LET c == ncalls + 1 IN
    /\ UserCode(s)
    /\ ncalls < MaxThreads
    /\ h \in FreshHandles
    /\ a \in FreshArgs
    /\ state' = [state EXCEPT ![s] = NewState(fn, a, h, c)]
    /\ sem' = [sem EXCEPT ![c] = "live"]
    /\ frameCall' = [frameCall EXCEPT ![s] = c]
    /\ call' = [call EXCEPT ![c] = [fn |-> fn, args |-> a, task |-> h,
                                    spawner |-> s]]
    /\ ncalls' = c
    /\ pc' = [pc EXCEPT ![c] = "copy"]
    /\ arg' = [arg EXCEPT ![c] = s]
    /\ tid' = [tid EXCEPT ![c] = NewId]
    /\ thread' = [thread EXCEPT ![c] = NewId]
    /\ result' = [result EXCEPT ![s] = 0]
    /\ spc' = [spc EXCEPT ![s] = "wait"]
    /\ current_task' = [current_task EXCEPT ![current_task_cell(s)] = h]
    /\ UNCHANGED <<start_l, args_l, stackTop, mainThread, numCPU,
                   installs, ret, pending, handling, nsent, crashed, ran,
                   notified, counter, uaf>>
    /\ UNCHANGED <<inits, pauseAct, posted, waitedBy, stWrites>>
    /\ UNCHANGED gcvars

\* Lines 110-129 when pthread_create succeeds: the record is filled, thread c
\* exists with the record's address as start_wrapper's argument, *thread holds
\* the new identity, and the caller goes on to the wait.
StartCreate(s, fn, a, h) ==
    LET c == ncalls + 1 IN
    /\ UserCode(s)
    /\ ncalls < MaxThreads
    /\ h \in FreshHandles
    /\ a \in FreshArgs
    /\ state' = [state EXCEPT ![s] = NewState(fn, a, h, c)]
    /\ sem' = [sem EXCEPT ![c] = "live"]
    /\ frameCall' = [frameCall EXCEPT ![s] = c]
    /\ call' = [call EXCEPT ![c] = [fn |-> fn, args |-> a, task |-> h,
                                    spawner |-> s]]
    /\ ncalls' = c
    /\ pc' = [pc EXCEPT ![c] = "copy"]
    /\ arg' = [arg EXCEPT ![c] = s]
    /\ tid' = [tid EXCEPT ![c] = NewId]
    /\ thread' = [thread EXCEPT ![c] = NewId]
    /\ result' = [result EXCEPT ![s] = 0]
    /\ spc' = [spc EXCEPT ![s] = "wait"]
    /\ UNCHANGED <<start_l, args_l, current_task, stackTop, mainThread, numCPU,
                   installs, ret, pending, handling, nsent, crashed, ran,
                   notified, counter, uaf>>
    /\ UNCHANGED <<inits, pauseAct, posted, waitedBy, stWrites>>
    /\ UNCHANGED gcvars

\* StartCreateFail without `if (result != 0) return result;`: the caller falls
\* through to the wait although no thread was created.
StartCreateFail_NoCheck(s, fn, a, h, e) ==
    LET c == ncalls + 1 IN
    /\ UserCode(s)
    /\ ncalls < MaxThreads
    /\ h \in FreshHandles
    /\ a \in FreshArgs
    /\ e # 0
    /\ state' = [state EXCEPT ![s] = NewState(fn, a, h, c)]
    /\ sem' = [sem EXCEPT ![c] = "live"]
    /\ frameCall' = [frameCall EXCEPT ![s] = c]
    /\ call' = [call EXCEPT ![c] = [fn |-> fn, args |-> a, task |-> h,
                                    spawner |-> s]]
    /\ ncalls' = c
    /\ result' = [result EXCEPT ![s] = e]
    /\ spc' = [spc EXCEPT ![s] = "wait"]
    /\ UNCHANGED <<pc, arg, start_l, args_l, current_task, stackTop, thread,
                   mainThread, numCPU, installs, tid, ret, pending, handling,
                   nsent, crashed, ran, notified, counter, uaf>>
    /\ UNCHANGED <<inits, pauseAct, posted, waitedBy, stWrites>>
    /\ UNCHANGED gcvars

\* Lines 110-129 when pthread_create fails with error e: the record is filled,
\* no thread is created and `if (result != 0) return result;` returns e.  The
\* frame is given up and its memory reused, but the semaphore in it was never
\* destroyed.
StartCreateFail(s, fn, a, h, e) ==
    LET c == ncalls + 1 IN
    /\ UserCode(s)
    /\ ncalls < MaxThreads
    /\ h \in FreshHandles
    /\ e # 0
    /\ a \in FreshArgs
    /\ state' = [state EXCEPT ![s] = JunkState]
    /\ sem' = [sem EXCEPT ![c] = "live"]
    /\ call' = [call EXCEPT ![c] = [fn |-> fn, args |-> a, task |-> h,
                                    spawner |-> s]]
    /\ ncalls' = c
    /\ result' = [result EXCEPT ![s] = e]
    /\ ret' = [ret EXCEPT ![c] = e]
    /\ UNCHANGED <<pc, spc, frameCall, arg, start_l, args_l, current_task,
                   stackTop, thread, mainThread, numCPU, installs, tid, pending,
                   handling, nsent, crashed, ran, notified, counter, uaf>>
    /\ UNCHANGED <<inits, pauseAct, posted, waitedBy, stWrites>>
    /\ UNCHANGED gcvars

\* StartWait without the wait: start goes on without blocking on the semaphore.
StartWait_NoBlock(s) ==
    /\ Running(s)
    /\ spc[s] = "wait"
    /\ spc' = [spc EXCEPT ![s] = "destroy"]
    /\ UNCHANGED <<pc, state, frameCall, result, arg, start_l, args_l,
                   current_task, stackTop, thread, mainThread, numCPU, installs,
                   tid, sem, ret, pending, handling, nsent, crashed, call, ncalls,
                   ran, notified, counter, uaf>>
    /\ UNCHANGED <<inits, pauseAct, posted, waitedBy, stWrites>>
    /\ UNCHANGED gcvars

\* Line 136: sem_wait(&state.startlock) returns once the count is positive.
StartWait(s) ==
    /\ Running(s)
    /\ spc[s] = "wait"
    /\ state[s].startlock > 0
    /\ state' = [state EXCEPT ![s].startlock = @ - 1]
    /\ waitedBy' = [waitedBy EXCEPT ![frameCall[s]] = Append(@, s)]
    /\ spc' = [spc EXCEPT ![s] = "destroy"]
    /\ UNCHANGED <<pc, frameCall, result, arg, start_l, args_l, current_task,
                   stackTop, thread, mainThread, numCPU, installs, tid, sem, ret,
                   pending, handling, nsent, crashed, call, ncalls, ran, notified,
                   counter, uaf>>
    /\ UNCHANGED <<inits, pauseAct, posted, stWrites>>
    /\ UNCHANGED gcvars

\* Lines 137-140: sem_destroy(&state.startlock); return result.  The frame is
\* given up and the caller reuses its memory at once: the record is overwritten.
StartReturn(s) ==
    /\ Running(s)
    /\ spc[s] = "destroy"
    /\ sem' = [sem EXCEPT ![frameCall[s]] = "destroyed"]
    /\ ret' = [ret EXCEPT ![frameCall[s]] = result[s]]
    /\ frameCall' = [frameCall EXCEPT ![s] = 0]
    /\ state' = [state EXCEPT ![s] = JunkState]
    /\ spc' = [spc EXCEPT ![s] = "idle"]
    /\ UNCHANGED <<pc, result, arg, start_l, args_l, current_task,
                   stackTop, thread, mainThread, numCPU, installs, tid,
                   pending, handling, nsent, crashed, call, ncalls, ran, notified,
                   counter, uaf>>
    /\ UNCHANGED <<inits, pauseAct, posted, waitedBy, stWrites>>
    /\ UNCHANGED gcvars

\* ------------------------------------------------------- tinygo_task_current
\* tinygo_task_current falling back to the main task when the cell is unset.
tinygo_task_current_Default(t) ==
    IF current_task[current_task_cell(t)] = NULL
      THEN call[0].task
      ELSE current_task[current_task_cell(t)]

\* Lines 144-146: return current_task, read on thread t.
tinygo_task_current(t) == current_task[current_task_cell(t)]

\* ---------------------------------------------------------- start_wrapper
\* The record start_wrapper's `state` pointer refers to no longer belongs to
\* the call that created thread c.
Dangling(c) == frameCall[arg[c]] # c

\* Lines 77-79: state = arg; start = state->start; args = state->args.
WrapperCopy(c) ==
    /\ Running(c)
    /\ pc[c] = "copy"
    /\ start_l' = [start_l EXCEPT ![c] = state[arg[c]].start]
    /\ args_l' = [args_l EXCEPT ![c] = state[arg[c]].args]
    /\ uaf' = (uaf \/ Dangling(c))
    /\ pc' = [pc EXCEPT ![c] = "bind"]
    /\ UNCHANGED <<spc, state, frameCall, result, arg, current_task, stackTop,
                   thread, mainThread, numCPU, installs, tid, sem, ret, pending,
                   handling, nsent, crashed, call, ncalls, ran, notified, counter>>
    /\ UNCHANGED <<inits, pauseAct, posted, waitedBy, stWrites>>
    /\ UNCHANGED gcvars

\* WrapperBind without the assignment: current_task is bound later, after the
\* entry function has begun.
WrapperBind_Skip(c) ==
    /\ Running(c)
    /\ pc[c] = "bind"
    /\ pc' = [pc EXCEPT ![c] = "stacktop"]
    /\ UNCHANGED <<spc, state, frameCall, result, arg, start_l, args_l, stackTop,
                   thread, mainThread, numCPU, installs, tid, sem, ret, pending,
                   handling, nsent, crashed, call, ncalls, ran, notified, counter,
                   current_task, uaf>>
    /\ UNCHANGED <<inits, pauseAct, posted, waitedBy, stWrites>>
    /\ UNCHANGED gcvars

\* Line 80: current_task = state->task.
WrapperBind(c) ==
    /\ Running(c)
    /\ pc[c] = "bind"
    /\ current_task' = [current_task EXCEPT
                          ![current_task_cell(c)] = state[arg[c]].task]
    /\ uaf' = (uaf \/ Dangling(c))
    /\ pc' = [pc EXCEPT ![c] = "stacktop"]
    /\ UNCHANGED <<spc, state, frameCall, result, arg, start_l, args_l, stackTop,
                   thread, mainThread, numCPU, installs, tid, sem, ret, pending,
                   handling, nsent, crashed, call, ncalls, ran, notified, counter>>
    /\ UNCHANGED <<inits, pauseAct, posted, waitedBy, stWrites>>
    /\ UNCHANGED gcvars

\* Lines 83-84: *(state->stackTop) = (uintptr_t)(&stackAddr).
WrapperStackTop(c) ==
    /\ Running(c)
    /\ pc[c] = "stacktop"
    /\ stackTop' = [stackTop EXCEPT ![state[arg[c]].stackTop] = StackAddr(c)]
    /\ stWrites' = [stWrites EXCEPT ![state[arg[c]].stackTop] = Append(@, c)]
    /\ uaf' = (uaf \/ Dangling(c))
    /\ pc' = [pc EXCEPT ![c] = "post"]
    /\ UNCHANGED <<spc, state, frameCall, result, arg, start_l, args_l,
                   current_task, thread, mainThread, numCPU, installs, tid, sem,
                   ret, pending, handling, nsent, crashed, call, ncalls, ran,
                   notified, counter>>
    /\ UNCHANGED <<inits, pauseAct, posted, waitedBy>>
    /\ UNCHANGED gcvars

\* WrapperPost posting the semaphore twice.
WrapperPost_Twice(c) ==
    /\ Running(c)
    /\ pc[c] = "post"
    /\ state' = [state EXCEPT ![arg[c]].startlock = @ + 2]
    /\ posted' = [posted EXCEPT ![frameCall[arg[c]]] = Append(Append(@, c), c)]
    /\ uaf' = (uaf \/ Dangling(c))
    /\ pc' = [pc EXCEPT ![c] = "call"]
    /\ UNCHANGED <<spc, frameCall, result, arg, start_l, args_l, current_task,
                   stackTop, thread, mainThread, numCPU, installs, tid, sem, ret,
                   pending, handling, nsent, crashed, call, ncalls, ran, notified,
                   counter>>
    /\ UNCHANGED <<inits, pauseAct, waitedBy, stWrites>>
    /\ UNCHANGED gcvars

\* Line 91: sem_post(&state->startlock).
WrapperPost(c) ==
    /\ Running(c)
    /\ pc[c] = "post"
    /\ state' = [state EXCEPT ![arg[c]].startlock = @ + 1]
    /\ posted' = [posted EXCEPT ![frameCall[arg[c]]] = Append(@, c)]
    /\ uaf' = (uaf \/ Dangling(c))
    /\ pc' = [pc EXCEPT ![c] = "call"]
    /\ UNCHANGED <<spc, frameCall, result, arg, start_l, args_l, current_task,
                   stackTop, thread, mainThread, numCPU, installs, tid, sem, ret,
                   pending, handling, nsent, crashed, call, ncalls, ran, notified,
                   counter>>
    /\ UNCHANGED <<inits, pauseAct, waitedBy, stWrites>>
    /\ UNCHANGED gcvars

\* WrapperCall storing to *stackTop a second time, as the entry function begins.
WrapperCall_WritesStackTop(c) ==
    /\ Running(c)
    /\ pc[c] = "call"
    /\ ran' = [ran EXCEPT ![c] = <<start_l[c], args_l[c]>>]
    /\ counter' = counter + 1
    /\ pc' = [pc EXCEPT ![c] = "entry"]
    /\ stackTop' = [stackTop EXCEPT ![c] = StackAddr(c) + 1]
    /\ stWrites' = [stWrites EXCEPT ![c] = Append(@, c)]
    /\ UNCHANGED <<spc, state, frameCall, result, arg, start_l, args_l,
                   current_task, thread, mainThread, numCPU, installs,
                   tid, sem, ret, pending, handling, nsent, crashed, call, ncalls,
                   notified, uaf>>
    /\ UNCHANGED <<inits, pauseAct, posted, waitedBy>>
    /\ UNCHANGED gcvars

\* Line 95: start(args) is called; the entry function begins (and, in the
\* scenario of the specification, increments the shared counter).
WrapperCall(c) ==
    /\ Running(c)
    /\ pc[c] = "call"
    /\ ran' = [ran EXCEPT ![c] = <<start_l[c], args_l[c]>>]
    /\ counter' = counter + 1
    /\ pc' = [pc EXCEPT ![c] = "entry"]
    /\ UNCHANGED <<spc, state, frameCall, result, arg, start_l, args_l,
                   current_task, stackTop, thread, mainThread, numCPU, installs,
                   tid, sem, ret, pending, handling, nsent, crashed, call, ncalls,
                   notified, uaf>>
    /\ UNCHANGED <<inits, pauseAct, posted, waitedBy, stWrites>>
    /\ UNCHANGED gcvars

\* Line 95: start(args) returns.
EntryReturn(c) ==
    /\ UserCode(c)
    /\ pc[c] = "entry"
    /\ pc' = [pc EXCEPT ![c] = "exited"]
    /\ UNCHANGED <<spc, state, frameCall, result, arg, start_l, args_l,
                   current_task, stackTop, thread, mainThread, numCPU, installs,
                   tid, sem, ret, pending, handling, nsent, crashed, call, ncalls,
                   ran, notified, counter, uaf>>
    /\ UNCHANGED <<inits, pauseAct, posted, waitedBy, stWrites>>
    /\ UNCHANGED gcvars

\* WrapperExited without the call of tinygo_task_exited.
WrapperExited_Skip(c) ==
    /\ Running(c)
    /\ pc[c] = "exited"
    /\ pc' = [pc EXCEPT ![c] = "ret"]
    /\ UNCHANGED <<spc, state, frameCall, result, arg, start_l, args_l,
                   current_task, stackTop, thread, mainThread, numCPU, installs,
                   tid, sem, ret, pending, handling, nsent, crashed, call, ncalls,
                   ran, notified, counter, uaf>>
    /\ UNCHANGED <<inits, pauseAct, posted, waitedBy, stWrites>>
    /\ UNCHANGED gcvars

\* WrapperExited reading the Task from the record: tinygo_task_exited(state->task).
WrapperExited_ReadsRecord(c) ==
    /\ Running(c)
    /\ pc[c] = "exited"
    /\ notified' = [notified EXCEPT ![c] = Append(@, state[arg[c]].task)]
    /\ uaf' = (uaf \/ Dangling(c))
    /\ counter' = counter - 1
    /\ pc' = [pc EXCEPT ![c] = "ret"]
    /\ UNCHANGED <<spc, state, frameCall, result, arg, start_l, args_l,
                   current_task, stackTop, thread, mainThread, numCPU, installs,
                   tid, sem, ret, pending, handling, nsent, crashed, call, ncalls,
                   ran>>
    /\ UNCHANGED <<inits, pauseAct, posted, waitedBy, stWrites>>
    /\ UNCHANGED gcvars

\* Line 98: tinygo_task_exited(current_task) (which, in the scenario of the
\* specification, decrements the shared counter).
WrapperExited(c) ==
    /\ Running(c)
    /\ pc[c] = "exited"
    /\ notified' = [notified EXCEPT ![c] = Append(@, tinygo_task_current(c))]
    /\ counter' = counter - 1
    /\ pc' = [pc EXCEPT ![c] = "ret"]
    /\ UNCHANGED <<spc, state, frameCall, result, arg, start_l, args_l,
                   current_task, stackTop, thread, mainThread, numCPU, installs,
                   tid, sem, ret, pending, handling, nsent, crashed, call, ncalls,
                   ran, uaf>>
    /\ UNCHANGED <<inits, pauseAct, posted, waitedBy, stWrites>>
    /\ UNCHANGED gcvars

\* Line 100: return NULL; the detached thread terminates and its identity may
\* be given to a later thread.  Signals still pending on it are dropped.
WrapperReturn(c) ==
    /\ Running(c)
    /\ pc[c] = "ret"
    /\ pc' = [pc EXCEPT ![c] = "done"]
    /\ pending' = [pending EXCEPT ![c] = <<>>]
    /\ UNCHANGED <<spc, state, frameCall, result, arg, start_l, args_l,
                   current_task, stackTop, thread, mainThread, numCPU, installs,
                   tid, sem, ret, handling, nsent, crashed, call, ncalls, ran,
                   notified, counter, uaf>>
    /\ UNCHANGED <<inits, pauseAct, posted, waitedBy, stWrites>>
    /\ UNCHANGED gcvars

\* --------------------------------------------------------- the pause signal
\* Thread identities the embedding runtime has been given: *thread of
\* tinygo_task_init and of every pthread_create that succeeded.
Published ==
    {i \in {mainThread} \cup {thread[c] : c \in Calls} : i # NoId}

\* kill(getpid(), taskPauseSignal) instead of pthread_kill: the signal is not
\* directed at one thread.
Targets_Process(id) == {u \in Threads : Live(u)}

\* Line 150: pthread_kill(thread, taskPauseSignal) reaches the live thread
\* that has identity id.
Targets(id) == {u \in Threads : Live(u) /\ tid[u] = id}

\* Lines 149-151, some live thread has identity id: the signal is pending on it.
tinygo_task_send_gc_signal(s, id) ==
    /\ UserCode(s)
    /\ nsent < MaxSignals
    /\ id \in Published
    /\ Targets(id) # {}
    /\ pending' = [u \in Threads |->
                     IF u \in Targets(id) THEN Append(pending[u], id)
                                          ELSE pending[u]]
    /\ nsent' = nsent + 1
    /\ UNCHANGED <<pc, spc, state, frameCall, result, arg, start_l, args_l,
                   current_task, stackTop, thread, mainThread, numCPU, installs,
                   tid, sem, ret, handling, crashed, call, ncalls, ran, notified,
                   counter, uaf>>
    /\ UNCHANGED <<inits, pauseAct, posted, waitedBy, stWrites>>
    /\ UNCHANGED gcvars

\* Lines 149-151, id is the identity of a detached thread that has terminated
\* and no live thread holds it: the behaviour of pthread_kill is undefined.
\* It either fails (the error is dropped: the function returns void) or the
\* process crashes.
SendStale(s, id, crash) ==
    /\ UserCode(s)
    /\ nsent < MaxSignals
    /\ id \in Published
    /\ Targets(id) = {}
    /\ crashed' = crash
    /\ nsent' = nsent + 1
    /\ UNCHANGED <<pc, spc, state, frameCall, result, arg, start_l, args_l,
                   current_task, stackTop, thread, mainThread, numCPU, installs,
                   tid, sem, ret, pending, handling, call, ncalls, ran, notified,
                   counter, uaf>>
    /\ UNCHANGED <<inits, pauseAct, posted, waitedBy, stWrites>>
    /\ UNCHANGED gcvars

\* Lines 59-62: the handler installed by sigaction starts on thread u for a
\* signal pending on u; u's own code does not run until it has returned.
HandlerEnter(u) ==
    /\ Running(u)
    /\ installs > 0
    /\ pending[u] # <<>>
    /\ handling' = [handling EXCEPT ![u] = Head(pending[u])]
    /\ pending' = [pending EXCEPT ![u] = Tail(@)]
    /\ UNCHANGED <<pc, spc, state, frameCall, result, arg, start_l, args_l,
                   current_task, stackTop, thread, mainThread, numCPU, installs,
                   tid, sem, ret, nsent, crashed, call, ncalls, ran, notified,
                   counter, uaf>>
    /\ UNCHANGED <<inits, pauseAct, posted, waitedBy, stWrites>>
    /\ UNCHANGED gcvars

\* Line 46: tinygo_task_gc_pause(sig) returns; thread u resumes.  A sem_wait
\* that the handler interrupted is restarted when the handler was installed
\* with SA_RESTART (line 61); without the flag it fails with EINTR, and
\* tinygo_task_start, which ignores what sem_wait returns, goes on.
HandlerReturn(u) ==
    /\ ~crashed
    /\ handling[u] # NoId
    /\ handling' = [handling EXCEPT ![u] = NoId]
    /\ spc' = IF spc[u] = "wait" /\ "SA_RESTART" \notin pauseAct.sa_flags
                THEN [spc EXCEPT ![u] = "destroy"]
                ELSE spc
    /\ UNCHANGED <<pc, state, frameCall, result, arg, start_l, args_l,
                   current_task, stackTop, thread, mainThread, numCPU, installs,
                   tid, sem, ret, pending, nsent, crashed, call, ncalls, ran,
                   notified, counter, uaf>>
    /\ UNCHANGED <<inits, pauseAct, posted, waitedBy, stWrites>>
    /\ UNCHANGED gcvars

\* -------------------------------------------------------------- gc_boehm.c
\* The classes of warnings the collector raises through its warning procedure:
\* "Repeated allocation of very large block" and, for one of the others,
\* "Out of Memory!".
WarnClasses == {"large block", "out of memory"}

\* The collector's own warning procedure prints the warning.
GC_default_warn_proc(msg) == <<msg>>

\* Lines 20-21: static void warn_proc(const char *msg, uintptr_t arg) { }
\* prints nothing, whatever msg is.
warn_proc(msg) == <<>>

\* callback calling tinygo_runtime_bdwgc_callback twice.
callback_Twice ==
    /\ scans' = scans + 2
    /\ UNCHANGED taskvars

\* Lines 16-18: callback() calls tinygo_runtime_bdwgc_callback() and returns.
callback ==
    /\ scans' = scans + 1
    /\ UNCHANGED taskvars

\* Lines 23-37: GC_set_push_other_roots(callback), and, only when compiled for
\* WebAssembly, GC_set_warn_proc(warn_proc).
tinygo_runtime_bdwgc_init ==
    /\ ~crashed
    /\ gcinits < MaxInits
    /\ gcinits' = gcinits + 1
    /\ gc_push_other_roots' = "callback"
    /\ registrations' = registrations + 1
    /\ gc_warn_proc' = IF wasm THEN "warn_proc" ELSE gc_warn_proc
    /\ UNCHANGED <<wasm, raised, emitted, invocations, scans>>
    /\ UNCHANGED taskvars

\* The collector raises a warning of class cls: it calls the warning procedure
\* that is installed.
GC_warn(cls) ==
    /\ ~crashed
    /\ Len(raised) < MaxWarnings
    /\ raised' = Append(raised, cls)
    /\ emitted' = emitted \o (IF gc_warn_proc = "warn_proc"
                                THEN warn_proc(cls)
                                ELSE GC_default_warn_proc(cls))
    /\ UNCHANGED <<wasm, gc_push_other_roots, gc_warn_proc, gcinits,
                   registrations, invocations, scans>>
    /\ UNCHANGED taskvars

\* The collector, marking, invokes the push_other_roots callback registered
\* with it.
GC_push_other_roots ==
    /\ ~crashed
    /\ gc_push_other_roots = "callback"
    /\ invocations < MaxCollections
    /\ invocations' = invocations + 1
    /\ callback
    /\ UNCHANGED <<wasm, gc_push_other_roots, gc_warn_proc, gcinits,
                   registrations, raised, emitted>>

\* ------------------------------------------------------------ specification
Next ==
    \/ \E h \in FreshHandles, n \in SysconfResults : tinygo_task_init(h, n)
    \/ \E s \in Threads, fn \in Fns, a \in ArgVals, h \in Handles :
          ncalls < MaxCalls /\ StartCreate(s, fn, a, h)
    \/ \E s \in Threads, fn \in Fns, a \in ArgVals, h \in Handles :
          ncalls < MaxCalls /\ StartCreateFail(s, fn, a, h, EAGAIN)
    \/ \E s \in Threads : StartWait(s)
    \/ \E s \in Threads : StartReturn(s)
    \/ \E c \in Calls : WrapperCopy(c)
    \/ \E c \in Calls : WrapperBind(c)
    \/ \E c \in Calls : WrapperStackTop(c)
    \/ \E c \in Calls : WrapperPost(c)
    \/ \E c \in Calls : WrapperCall(c)
    \/ \E c \in Calls : EntryReturn(c)
    \/ \E c \in Calls : WrapperExited(c)
    \/ \E c \in Calls : WrapperReturn(c)
    \/ \E s \in Threads, id \in 0..MaxThreads : tinygo_task_send_gc_signal(s, id)
    \/ \E s \in Threads, id \in 0..MaxThreads, crash \in BOOLEAN :
          SendStale(s, id, crash)
    \/ \E u \in Threads : HandlerEnter(u)
    \/ \E u \in Threads : HandlerReturn(u)

Spec == Init /\ [][Next]_vars

\* Spec with the scheduling the claim about termination assumes: a thread that
\* can take its next step of start_wrapper or of tinygo_task_start eventually
\* takes it, and a handler that was entered eventually returns.
Fairness ==
    /\ \A c \in Calls :
          /\ WF_vars(WrapperCopy(c))
          /\ WF_vars(WrapperBind(c))
          /\ WF_vars(WrapperStackTop(c))
          /\ WF_vars(WrapperPost(c))
    /\ \A s \in Threads :
          /\ WF_vars(StartWait(s))
          /\ WF_vars(StartReturn(s))
          /\ WF_vars(HandlerReturn(s))

SpecFair == Init /\ [][Next]_vars /\ Fairness

\* Identity id was obtained from a call of tinygo_task_start that has returned
\* 0, or is the main thread's, stored by tinygo_task_init.
Legit(id) ==
    \/ id = mainThread /\ pc[0] # "boot"
    \/ \E c \in Calls : thread[c] = id /\ ret[c] = 0

\* The task runtime with MaxThreads calls of tinygo_task_start, its pause
\* signals sent only to identities that a returned call, or tinygo_task_init,
\* handed out.
NextWide ==
    \/ \E h \in FreshHandles, n \in SysconfResults : tinygo_task_init(h, n)
    \/ \E s \in Threads, fn \in Fns, a \in ArgVals, h \in Handles :
          StartCreate(s, fn, a, h)
    \/ \E s \in Threads, fn \in Fns, a \in ArgVals, h \in Handles :
          StartCreateFail(s, fn, a, h, EAGAIN)
    \/ \E s \in Threads : StartWait(s)
    \/ \E s \in Threads : StartReturn(s)
    \/ \E c \in Calls : WrapperCopy(c)
    \/ \E c \in Calls : WrapperBind(c)
    \/ \E c \in Calls : WrapperStackTop(c)
    \/ \E c \in Calls : WrapperPost(c)
    \/ \E c \in Calls : WrapperCall(c)
    \/ \E c \in Calls : EntryReturn(c)
    \/ \E c \in Calls : WrapperExited(c)
    \/ \E c \in Calls : WrapperReturn(c)
    \/ \E s \in Threads, id \in 0..MaxThreads :
          Legit(id) /\ tinygo_task_send_gc_signal(s, id)
    \/ \E s \in Threads, id \in 0..MaxThreads, crash \in BOOLEAN :
          Legit(id) /\ SendStale(s, id, crash)
    \/ \E u \in Threads : HandlerEnter(u)
    \/ \E u \in Threads : HandlerReturn(u)

SpecWide == Init /\ [][NextWide]_vars

\* The task runtime when tinygo_task_init may be called more than once.
NextInit ==
    \/ Next
    \/ \E h \in Handles, n \in SysconfResults : tinygo_task_init_again(h, n)

SpecInit == Init /\ [][NextInit]_vars

\* The collector glue on either platform, with the main thread of the task
\* runtime: the platform is fixed when the program is built.
InitGCSpec == InitTask /\ wasm \in BOOLEAN

NextGC ==
    \/ tinygo_runtime_bdwgc_init
    \/ \E cls \in WarnClasses : GC_warn(cls)
    \/ GC_push_other_roots
    \/ \E h \in FreshHandles, n \in SysconfResults : tinygo_task_init(h, n)
    \/ \E s \in Threads, id \in 0..MaxThreads : tinygo_task_send_gc_signal(s, id)
    \/ \E u \in Threads : HandlerEnter(u)
    \/ \E u \in Threads : HandlerReturn(u)

SpecGC == InitGCSpec /\ [][NextGC]_vars

\* =================================================================== claims
\* Thread c has not signalled the rendezvous yet.
BeforeSignal(c) == pc[c] \in {"copy", "bind", "stacktop", "post"}

\* Thread c is between the beginning of its entry function and the return of
\* its thread function.
InTask(c) == pc[c] \in {"entry", "exited", "ret"}

\* Call c has returned pthread_create's error.
Failed(c) == ret[c] # NoRet /\ ret[c] # 0

\* C1: whenever a call of tinygo_task_start has returned 0, the stack-top
\* location passed to it no longer holds its pre-call value 0: the new thread
\* has written the non-zero address of its local there.
C1_StackTopWrittenBeforeReturn ==
    \A c \in Calls :
        ret[c] = 0 => stackTop[c] # 0 /\ stackTop[c] = StackAddr(c)

\* C1 witness: a call has returned 0 while its thread has not yet begun its
\* entry function.
C1_Witness ==
    \E c \in Calls : ret[c] = 0 /\ pc[c] = "call" /\ stackTop[c] = StackAddr(c)

\* C2: no thread ever accesses a state_pass record whose call has returned; no
\* call returns while its thread has yet to signal; and although the record is
\* overwritten when start returns, every thread runs the entry function and
\* argument of its own call and reports the Task of its own call on exit.
C2_NoUseAfterHandoff ==
    /\ ~uaf
    /\ \A c \in Calls :
        /\ BeforeSignal(c) => ret[c] = NoRet /\ frameCall[arg[c]] = c
        /\ pc[c] \in {"entry", "exited", "ret", "done"} =>
               ran[c] = <<call[c].fn, call[c].args>>
        /\ \A i \in 1..Len(notified[c]) : notified[c][i] = call[c].task

\* C2 witness: a thread has run to its end with the entry function and
\* argument of its call and has reported its Task, although the record of its
\* call was overwritten when start returned.
C2_Witness ==
    \E c \in Calls :
        /\ pc[c] = "done"
        /\ ret[c] = 0
        /\ state[arg[c]] # NewState(call[c].fn, call[c].args, call[c].task, c)
        /\ ran[c] = <<call[c].fn, call[c].args>>
        /\ notified[c] = <<call[c].task>>

\* C3: on a thread created by tinygo_task_start, from the beginning of its
\* entry function to the return of the thread function, tinygo_task_current
\* returns the Task handle of that call: not null, not another thread's handle.
C3_CurrentIsOwnTask ==
    \A c \in Calls :
        InTask(c) =>
            /\ tinygo_task_current(c) = call[c].task
            /\ tinygo_task_current(c) # NULL
            /\ \A d \in 0..MaxThreads : d # c => tinygo_task_current(c) # call[d].task

\* C3 witness: two created threads are inside their entry functions at once.
C3_Witness ==
    \E c, d \in Calls :
        /\ c # d
        /\ pc[c] = "entry" /\ pc[d] = "entry"
        /\ tinygo_task_current(c) = call[c].task
        /\ tinygo_task_current(d) = call[d].task

\* C4: a call whose pthread_create failed returns that error and has done
\* nothing else: its thread does not exist, no entry function ran for it, no
\* exit notification was issued for it, its stack-top location still holds 0;
\* only a call whose thread exists ever waits on the semaphore; and every
\* thread's current task is still unset or its own.
C4_FailedStartHasNoEffect ==
    /\ \A c \in Calls :
        Failed(c) =>
            /\ ret[c] = EAGAIN
            /\ pc[c] = "none"
            /\ ran[c] = <<NULL, NULL>>
            /\ notified[c] = <<>>
            /\ stackTop[c] = 0
    /\ \A s \in Threads :
        spc[s] # "idle" => result[s] = 0 /\ pc[frameCall[s]] # "none"
    /\ \A t \in Threads : tinygo_task_current(t) \in {NULL, call[t].task}

\* C4 witness: one call has failed and a later call of the same thread has
\* succeeded.
C4_Witness ==
    \E c, d \in Calls :
        /\ Failed(c)
        /\ ret[d] = 0
        /\ call[c].spawner = call[d].spawner

\* C5: when a call whose pthread_create failed has returned, the semaphore it
\* initialised is not left live.
C5_FailedStartLeavesNoSemaphore ==
    \A c \in Calls : Failed(c) => sem[c] # "live"

\* C6: a created thread passes a Task to tinygo_task_exited only after its
\* entry function has returned, at most once, and it is the Task of its call;
\* a thread that has left line 98 has done so exactly once; and when every
\* created thread has terminated the scenario counter is zero.
C6_ExitNotifiedOnce ==
    /\ \A c \in Calls :
        /\ Len(notified[c]) <= 1
        /\ notified[c] # <<>> =>
               pc[c] \in {"ret", "done"} /\ notified[c] = <<call[c].task>>
        /\ pc[c] \in {"ret", "done"} => Len(notified[c]) = 1
    /\ (\A c \in Calls : pc[c] \in {"none", "done"}) => counter = 0

\* C6 witness: every call created a thread, all of them have terminated, each
\* has reported its own Task and the counter is back to zero.
C6_Witness ==
    /\ \A c \in 1..MaxCalls :
          pc[c] = "done" /\ notified[c] = <<call[c].task>>
    /\ counter = 0

\* C7: a pause signal is pending on a thread, or being handled by it, only if
\* it was sent to that thread's identity.
C7_SignalOnlyOnTarget ==
    \A u \in Threads :
        /\ handling[u] # NoId => handling[u] = tid[u]
        /\ \A i \in 1..Len(pending[u]) : pending[u][i] = tid[u]

\* C7 witness: the handler runs on a created thread while the main thread and
\* another created thread are live and run their own code.
C7_Witness ==
    \E u, v \in Calls :
        /\ u # v
        /\ Live(u) /\ handling[u] # NoId /\ handling[u] = tid[u]
        /\ Live(v) /\ handling[v] = NoId /\ pending[v] = <<>>
        /\ handling[0] = NoId /\ pending[0] = <<>>

\* C8: while the handler runs on a thread, no step changes that thread's
\* position in start_wrapper or tinygo_task_start, its locals, its
\* current-task cell or its stack-top location; the step that ends the handler
\* leaves them unchanged too, so the thread resumes where it was interrupted.
C8_HandlerLeavesThreadUnchanged ==
    [][\A u \in Threads :
          handling[u] # NoId =>
              /\ pc'[u] = pc[u]
              /\ spc'[u] = spc[u]
              /\ result'[u] = result[u]
              /\ frameCall'[u] = frameCall[u]
              /\ u \in Calls => /\ arg'[u] = arg[u]
                                /\ start_l'[u] = start_l[u]
                                /\ args_l'[u] = args_l[u]
              /\ current_task'[current_task_cell(u)] =
                     current_task[current_task_cell(u)]
              /\ stackTop'[u] = stackTop[u]]_vars

\* C8 witness: the handler runs on a created thread that has written its
\* stack top and has not yet signalled the rendezvous.
C8_Witness ==
    \E u \in Calls :
        /\ handling[u] # NoId
        /\ pc[u] = "post"
        /\ stackTop[u] = StackAddr(u)
        /\ spc[arg[u]] = "wait"

\* The identity of a created thread that has terminated.
ExitedId(id) == \E t \in Calls : pc[t] = "done" /\ tid[t] = id

\* C9: a call of tinygo_task_send_gc_signal with the identity of a thread
\* that has terminated does not crash the process, makes no signal pending and
\* no handler run on any thread, and leaves every current-task cell and
\* stack-top location unchanged.
C9_StaleSignalIsBenign ==
    [][(\E s \in Threads, id \in 0..MaxThreads :
           /\ ExitedId(id)
           /\ \/ tinygo_task_send_gc_signal(s, id)
              \/ \E crash \in BOOLEAN : SendStale(s, id, crash))
       => /\ crashed' = crashed
          /\ pending' = pending
          /\ handling' = handling
          /\ current_task' = current_task
          /\ stackTop' = stackTop]_vars

\* A task has been bound on thread t: by tinygo_task_init (line 52) on the
\* main thread, by start_wrapper (line 80) on a created thread.
Bound(t) ==
    IF t = 0 THEN pc[0] # "boot"
             ELSE pc[t] \in {"stacktop", "post", "call", "entry", "exited", "ret"}

\* C10: on a live thread on which no task has been bound, tinygo_task_current
\* returns the null pointer, which differs from what it returns on every
\* thread on which a task has been bound.
C10_UnboundCurrentIsNull ==
    \A t \in Threads :
        Live(t) /\ ~Bound(t) =>
            /\ tinygo_task_current(t) = NULL
            /\ \A u \in Threads :
                   Live(u) /\ Bound(u) =>
                       tinygo_task_current(u) # tinygo_task_current(t)

\* C10 witness: the pause handler runs on a created thread that has not bound
\* its task yet, while the main thread and another created thread have.
C10_Witness ==
    \E t, u \in Calls :
        /\ pc[t] \in {"copy", "bind"}
        /\ handling[t] # NoId
        /\ pc[u] = "entry"
        /\ Bound(0)



\* A warning of a class other than "large allocation".
NotLarge(w) == w # "large block"

\* C11: the warning filter suppresses only the "large allocation" class: every
\* warning of another class that was raised has been printed, on every
\* platform, and where no filter is installed every warning has been printed.
C11_OnlyLargeAllocationSuppressed ==
    /\ SelectSeq(emitted, NotLarge) = SelectSeq(raised, NotLarge)
    /\ ~wasm => emitted = raised
    /\ ~wasm => gc_warn_proc = "GC_default_warn_proc"

\* The positions of start_wrapper after line 79, after line 80, after line 84,
\* after the rendezvous was signalled, and after start(args) was called.
Copied(c) == pc[c] \in {"bind", "stacktop", "post", "call", "entry", "exited",
                        "ret", "done"}
AfterBind(c) == pc[c] \in {"stacktop", "post", "call", "entry", "exited", "ret",
                           "done"}
AfterStackTop(c) == pc[c] \in {"post", "call", "entry", "exited", "ret", "done"}
Signalled(c) == pc[c] \in {"call", "entry", "exited", "ret", "done"}
Entered(c) == pc[c] \in {"entry", "exited", "ret", "done"}

\* C12: in a created thread the steps are strictly ordered: the entry function
\* and its argument are copied and the current task is bound, then the
\* stack-top is written, then the rendezvous is signalled, then the entry
\* function begins.  Each step's effect is there from that step on and not
\* before it, so the entry function never begins before the three others.
C12_WrapperStepsOrdered ==
    \A c \in Calls :
        /\ Copied(c) <=> (start_l[c] = call[c].fn /\ args_l[c] = call[c].args
                          /\ pc[c] # "none")
        /\ AfterBind(c) <=> (pc[c] # "none" /\ tinygo_task_current(c) # NULL)
        /\ AfterBind(c) => tinygo_task_current(c) = call[c].task
        /\ AfterStackTop(c) <=> stWrites[c] # <<>>
        /\ AfterStackTop(c) <=> stackTop[c] = StackAddr(c)
        /\ Signalled(c) <=> posted[c] # <<>>
        /\ Entered(c) <=> ran[c] # <<NULL, NULL>>
        /\ Entered(c) => /\ ran[c] = <<call[c].fn, call[c].args>>
                         /\ posted[c] = <<c>>
                         /\ stWrites[c] = <<c>>
                         /\ tinygo_task_current(c) = call[c].task

\* C12 witness: an entry function has begun, with the arguments of its call,
\* while the caller of tinygo_task_start has not yet woken from the wait.
C12_Witness ==
    \E c \in Calls :
        /\ pc[c] = "entry"
        /\ ran[c] = <<call[c].fn, call[c].args>>
        /\ spc[arg[c]] = "wait"
        /\ frameCall[arg[c]] = c

\* C13: a pause signal handled by the caller of tinygo_task_start while it is
\* blocked in the rendezvous wait does not release it: whenever a caller is
\* past the wait, has destroyed the semaphore or has returned 0, the thread of
\* that call has signalled, and only a wait that was let go by that signal
\* ended.
C13_SignalDoesNotReleaseWait ==
    /\ \A s \in Threads :
          spc[s] = "destroy" => /\ posted[frameCall[s]] = <<frameCall[s]>>
                                /\ waitedBy[frameCall[s]] = <<s>>
    /\ \A c \in Calls :
          /\ sem[c] = "destroyed" => posted[c] = <<c>>
          /\ ret[c] = 0 => posted[c] = <<c>> /\ waitedBy[c] = <<call[c].spawner>>
          /\ (ret[c] = NoRet /\ BeforeSignal(c)) =>
                /\ spc[call[c].spawner] = "wait"
                /\ frameCall[call[c].spawner] = c
                /\ state[call[c].spawner] =
                      NewState(call[c].fn, call[c].args, call[c].task, c)

\* C13 witness: the pause handler runs on a thread blocked in the rendezvous
\* wait of a call whose thread has not signalled yet.
C13_Witness ==
    \E s \in Threads :
        /\ spc[s] = "wait"
        /\ handling[s] # NoId
        /\ BeforeSignal(frameCall[s])
        /\ sem[frameCall[s]] = "live"

\* C14: pause signals being sent only to identities obtained from a call of
\* tinygo_task_start that has returned 0, or to the main thread after
\* tinygo_task_init, whenever the handler runs on a live thread that thread's
\* current task is not null and, for a created thread, the stack-top location
\* of its call has been written.
C14_HandlerSeesInitialisedThread ==
    \A u \in Threads :
        (Live(u) /\ handling[u] # NoId) =>
            /\ tinygo_task_current(u) # NULL
            /\ u \in Calls => stackTop[u] # 0

\* C15: each caller-owned stack-top location is written exactly once, by the
\* thread of its call, before that thread signals the rendezvous: a step
\* changes stackTop[k] only if it is thread k's store of lines 83-84, made
\* outside the handler, to a location still holding 0 and before the signal;
\* the only writer ever recorded for the location is k, once; and a thread
\* that has signalled has written.
C15_StackTopWrittenOnce ==
    [][/\ \A k \in 0..MaxThreads :
            /\ stackTop'[k] # stackTop[k] =>
                  /\ k \in Calls
                  /\ pc[k] = "stacktop" /\ pc'[k] = "post"
                  /\ handling[k] = NoId
                  /\ stackTop[k] = 0 /\ stackTop'[k] = StackAddr(k)
                  /\ stWrites[k] = <<>>
                  /\ posted[k] = <<>>
            /\ stWrites'[k] \in {<<>>, <<k>>}
            /\ stWrites'[k] = <<>> <=> stackTop'[k] = 0
       /\ \A c \in Calls : posted'[c] # <<>> => stWrites'[c] = <<c>>
      ]_vars

\* C15 witness: two threads have each written their own stack-top location,
\* one of them has terminated since and the other is in its entry function.
C15_Witness ==
    \E c, d \in Calls :
        /\ pc[c] = "done" /\ pc[d] = "entry"
        /\ stackTop[c] = StackAddr(c) /\ stWrites[c] = <<c>>
        /\ stackTop[d] = StackAddr(d) /\ stWrites[d] = <<d>>

\* C16: the current-task cells are per thread and written only by their own
\* thread: a step changes the current task of thread t only if it is t's own
\* binding step (line 52 on the main thread, line 80 on a created thread),
\* taken outside the handler; so a call of tinygo_task_start, another thread's
\* binding and a pause signal leave it unchanged.  After tinygo_task_init the
\* main thread's tinygo_task_current is mainTask, whatever was started since.
C16_CurrentTaskWrittenByOwnThread ==
    [][/\ \A t \in Threads :
            current_task'[current_task_cell(t)] # tinygo_task_current(t) =>
                /\ pc[t] \in {"boot", "bind"}
                /\ pc'[t] # pc[t]
                /\ handling[t] = NoId
                /\ \A u \in Threads \ {t} :
                      current_task'[current_task_cell(u)] = tinygo_task_current(u)
       /\ pc'[0] = "user" =>
            current_task'[current_task_cell(0)] = call'[0].task
      ]_vars

\* C16 witness: after a call that failed and a call that returned 0, whose
\* thread bound its own task, and after a pause signal, the main thread's
\* current task is still mainTask.
C16_Witness ==
    \E c, d \in Calls :
        /\ Failed(c)
        /\ ret[d] = 0 /\ tinygo_task_current(d) = call[d].task
        /\ nsent > 0
        /\ pc[0] = "user" /\ spc[0] = "idle"
        /\ call[0].task # NULL
        /\ tinygo_task_current(0) = call[0].task

\* C17: under fair scheduling of the new thread, with every handler
\* invocation returning, every call of tinygo_task_start whose thread was
\* created eventually returns 0.
C17_StartEventuallyReturns ==
    \A c \in Calls : (pc[c] # "none" /\ ret[c] = NoRet) ~> (ret[c] = 0)

\* C18: with several calls of tinygo_task_start in flight, each rendezvous
\* semaphore is posted at most once, by the thread of its own call, and a wait
\* on it ends at most once, in the caller of that call and only after that
\* post; its count is always 0 or 1, and is 1 exactly between the post and the
\* end of the wait; each thread writes only the stack-top location of its own
\* call.  Nothing is posted, waited or written through a record that belongs
\* to no call.
C18_RendezvousIsPerCall ==
    /\ \A k \in Calls :
          /\ posted[k] \in {<<>>, <<k>>}
          /\ waitedBy[k] \in {<<>>, <<call[k].spawner>>}
          /\ waitedBy[k] # <<>> => posted[k] = <<k>>
          /\ stWrites[k] \in {<<>>, <<k>>}
          /\ ret[k] = 0 => /\ posted[k] = <<k>>
                           /\ waitedBy[k] = <<call[k].spawner>>
    /\ posted[0] = <<>> /\ waitedBy[0] = <<>> /\ stWrites[0] = <<>>
    /\ \A s \in Threads :
          /\ state[s].startlock \in {0, 1}
          /\ spc[s] \in {"wait", "destroy"} =>
                state[s].startlock =
                    Len(posted[frameCall[s]]) - Len(waitedBy[frameCall[s]])

\* C18 witness: two calls are in flight at once on different callers, both
\* blocked in the wait; the thread of one has signalled and the thread of the
\* other has not.
C18_Witness ==
    \E s, r \in Threads :
        /\ s # r
        /\ spc[s] = "wait" /\ spc[r] = "wait"
        /\ state[s].startlock = 1 /\ posted[frameCall[s]] = <<frameCall[s]>>
        /\ state[r].startlock = 0 /\ posted[frameCall[r]] = <<>>

\* C19: each call of tinygo_runtime_bdwgc_init registers the root-scan callback
\* exactly once, and each invocation of the registered callback by the
\* collector calls tinygo_runtime_bdwgc_callback exactly once and does nothing
\* else: it changes no state of the task runtime and sends no pause signal.
C19_CallbackForwardsOnce ==
    [][/\ gcinits' # gcinits =>
            /\ registrations' = registrations + 1
            /\ gc_push_other_roots' = "callback"
       /\ registrations' = gcinits'
       /\ invocations' # invocations =>
            /\ gc_push_other_roots = "callback"
            /\ scans' = scans + 1
            /\ UNCHANGED taskvars
            /\ UNCHANGED <<gc_push_other_roots, gc_warn_proc, registrations,
                           raised, emitted>>
       /\ scans' = invocations'
      ]_vars

\* C19 witness: after one call of tinygo_runtime_bdwgc_init the collector has
\* invoked the callback twice, the main task is bound and a pause signal is
\* pending on the main thread.
C19_Witness ==
    /\ gcinits = 1 /\ registrations = 1
    /\ invocations = 2 /\ scans = 2
    /\ pending[0] # <<>>
    /\ tinygo_task_current(0) = call[0].task /\ call[0].task # NULL

\* C20 as stated: the handler is installed at most once per process.
C20_InstalledAtMostOnce == installs <= 1

\* C20, amended: tinygo_task_init has no guard.  Every call of it calls
\* sigaction, so the number of installations is the number of calls; each
\* installation sets the same handler with the same flags, so the disposition
\* after any call is the one the first call set, and a call changes nothing
\* else that the first call did not set: signals pending stay pending and
\* the main thread's current task stays the main task.
C20_EveryInitInstallsTheSameHandler ==
    [][/\ inits' # inits =>
            /\ inits' = inits + 1
            /\ installs' = installs + 1
            /\ pauseAct' = act
            /\ inits > 0 => /\ pauseAct' = pauseAct
                            /\ pending' = pending /\ handling' = handling
                            /\ current_task' = current_task
                            /\ mainThread' = mainThread
       /\ installs' = inits'
       /\ pauseAct' = IF inits' = 0 THEN SIG_DFL ELSE act
      ]_vars

\* C20 witness: tinygo_task_init was called twice and the handler installed
\* twice; a pause signal sent since then is being handled on a created thread.
C20_Witness ==
    /\ inits = 2 /\ installs = 2
    /\ pauseAct = act
    /\ \E c \in Calls : Live(c) /\ handling[c] # NoId

=============================================================================
